---- MODULE Spec2Model ----
(***************************************************************************)
(* Model of the Mysite shop: the product / order views and JSON exports of *)
(* shopapp/views.py and the registration and session views of             *)
(* myauth/views.py.  The entity store is a set of rows per table, every    *)
(* view is one action that handles one request and leaves its response in  *)
(* the variable response.                                                  *)
(***************************************************************************)
EXTENDS Integers, Sequences, FiniteSets

VARIABLES products, orders, users, profiles, session, response, setDone

vars == <<products, orders, users, profiles, session, response, setDone>>

(* ------------------------------ bounds --------------------------------- *)

MaxProducts == 2
MaxOrders == 2
MaxUsers == 6

(* ----------------------------- input sets ------------------------------ *)

\* Submitted product names; the empty name fails form validation.
Names == {"", "Desk", "Lamp"}

\* Decimal prices in hundredths: 0.05 and 123.45 (tests.py posts '123.45').
Prices == {5, 12345}

Clients == {"c1", "c2"}

Anonymous == 0

NoClient == "-"

LOGIN_URL == "login"

\* Usernames a registration form may submit; "" fails validation.
Usernames == {"", "testuser", "newuser", "guest"}

Passwords == {"qwerty", "other"}

(* --------------------------- the entity store -------------------------- *)

\* A product row is [pk, name, price, archived]; description, discount and
\* preview are stored like name and read by no view body.  An order row is
\* [pk, user_id, delivery_address, promocode, products], products being the
\* pks of its many-to-many relation; created_at is left out.

ArchivedDefault == FALSE

MaxPk(rows) == IF rows = {} THEN 0
               ELSE CHOOSE m \in {r.pk : r \in rows} : \A r \in rows : r.pk <= m

\* The primary key the database gives the next inserted row.
NextPk(rows) == MaxPk(rows) + 1

RECURSIVE OrderByPk(_)
OrderByPk(rows) ==
  IF rows = {} THEN <<>>
  ELSE LET r == CHOOSE x \in rows : \A y \in rows : x.pk <= y.pk
       IN  <<r>> \o OrderByPk(rows \ {r})

\* get_object(): the set holding the row with this pk, or {} (404).
GetObject(rows, pk) == {r \in rows : r.pk = pk}

(* ------------------------- users and permissions ----------------------- *)

User(pk, name, staff, super, perms) ==
  [pk |-> pk, username |-> name, password |-> "qwerty",
   is_staff |-> staff, is_superuser |-> super, perms |-> perms]

\* The accounts of the fixtures and test set-ups: an ordinary user, one
\* holding shopapp.view_order, a staff user, a superuser without the staff
\* flag and one holding myauth.view_profile.
FixtureUsers ==
  { User(1, "testuser", FALSE, FALSE, {}),
    User(2, "viewer",   FALSE, FALSE, {"shopapp.view_order"}),
    User(3, "staff",    TRUE,  FALSE, {}),
    User(4, "root",     FALSE, TRUE,  {}),
    User(5, "profiler", FALSE, FALSE, {"myauth.view_profile"}) }

FixtureProfiles == { [pk |-> u.pk, user_id |-> u.pk] : u \in FixtureUsers }

\* request.user of a client: the user row of its session, {} if anonymous.
RequestUser(c) == {u \in users : u.pk = session[c].user}

IsAuthenticated(c) == RequestUser(c) # {}

\* request.user.is_staff (AnonymousUser.is_staff is False).
IsStaff(c) == \E u \in RequestUser(c) : u.is_staff

\* request.user.has_perm(perm): a superuser holds every permission.
HasPerm(c, perm) == \E u \in RequestUser(c) : u.is_superuser \/ perm \in u.perms

(* ------------------------------ responses ------------------------------ *)

NoLocation == [path |-> "", arg |-> 0, next |-> ""]

Url(path, arg) == [path |-> path, arg |-> arg, next |-> ""]

NoPayload == [keys |-> {}, products |-> <<>>, orders |-> <<>>, object |-> 0,
              value |-> ""]

\* A response, with the request it answers: the view, the client, the pk of
\* the URL (0 if the URL has none) and request.user at the time of the call.
Response(op, c, arg, status, location, payload) ==
  [op |-> op, client |-> c, arg |-> arg,
   user |-> IF c = NoClient THEN Anonymous ELSE session[c].user,
   status |-> status, location |-> location, payload |-> payload]

Redirect(op, c, arg, location) == Response(op, c, arg, 302, location, NoPayload)

\* redirect_to_login(): 302 to LOGIN_URL with the requested path as next.
RedirectToLogin(op, c, arg) ==
  Response(op, c, arg, 302, [path |-> LOGIN_URL, arg |-> 0, next |-> op], NoPayload)

Forbidden(op, c, arg) == Response(op, c, arg, 403, NoLocation, NoPayload)

NotFound(op, c, arg) == Response(op, c, arg, 404, NoLocation, NoPayload)

\* AccessMixin.handle_no_permission with raise_exception unset: an
\* authenticated requester gets PermissionDenied, an anonymous one is sent
\* to the login page.
HandleNoPermission(op, c, arg) ==
  IF IsAuthenticated(c) THEN Forbidden(op, c, arg) ELSE RedirectToLogin(op, c, arg)

(* ------------------------- values and encoding ------------------------- *)

Digit(d) == <<"0", "1", "2", "3", "4", "5", "6", "7", "8", "9">>[d + 1]

RECURSIVE Digits(_)
Digits(n) == IF n < 10 THEN <<Digit(n)>>
             ELSE Digits(n \div 10) \o <<Digit(n % 10)>>

\* str() of a two-place Decimal held in hundredths: 12345 is "123.45".
StrDecimal(c) ==
  Digits(c \div 100) \o <<".">> \o <<Digit((c \div 10) % 10), Digit(c % 10)>>

\* Values as the views hold them before the response is encoded.
PyDecimal(c) == [type |-> "Decimal", cents |-> c, text |-> <<>>]

PyStr(s) == [type |-> "str", cents |-> 0, text |-> s]

\* JsonResponse's encoder (DjangoJSONEncoder): a Decimal is written as the
\* JSON string str(o), a str as a JSON string.
JsonEncode(v) ==
  IF v.type = "Decimal" THEN [json |-> "string", text |-> StrDecimal(v.cents)]
  ELSE [json |-> "string", text |-> v.text]

(* --------------------------- product views ----------------------------- *)

\* ModelForm validation of a submitted product: the name is required.
ProductFormValid(name, price) == name # "" /\ price \in Prices

\* Mutant: the listing forgets the archived filter.
ProductsListQueryset_All(rows) == rows

\* ProductsListView.queryset
ProductsListQueryset(rows) == {p \in rows : p.archived = FALSE}

\* CreateView.form_valid: form.save() inserts the row.
SaveNewProduct(rows, name, price) ==
  rows \cup {[pk |-> NextPk(rows), name |-> name, price |-> price,
              archived |-> ArchivedDefault]}

\* Mutant: the update form also carries archived, unchecked.
SaveProductFields_ClearsArchived(p, name, price) ==
  [p EXCEPT !.name = name, !.price = price, !.archived = FALSE]

\* UpdateView.form_valid: form.save() writes the form's fields to the row.
SaveProductFields(p, name, price) == [p EXCEPT !.name = name, !.price = price]

\* ProductDeleteView.form_valid: the row is flagged and saved.
ArchiveProduct(p) == [p EXCEPT !.archived = TRUE]

ProductsList ==
  /\ response' = Response("products_list", NoClient, 0, 200, NoLocation,
        [NoPayload EXCEPT !.keys = {"products"},
                          !.products = OrderByPk(ProductsListQueryset(products))])
  /\ UNCHANGED <<products, orders, users, profiles, session, setDone>>

ProductDetails(pk) ==
  /\ response' = IF GetObject(products, pk) = {}
                 THEN NotFound("product_details", NoClient, pk)
                 ELSE Response("product_details", NoClient, pk, 200, NoLocation,
                        [NoPayload EXCEPT !.keys = {"product"}, !.object = pk])
  /\ UNCHANGED <<products, orders, users, profiles, session, setDone>>

ProductCreate(name, price) ==
  /\ IF ProductFormValid(name, price)
     THEN /\ Cardinality(products) < MaxProducts
          /\ products' = SaveNewProduct(products, name, price)
          /\ response' = Redirect("product_create", NoClient, 0, Url("products_list", 0))
     ELSE /\ response' = Response("product_create", NoClient, 0, 200, NoLocation,
                                  [NoPayload EXCEPT !.keys = {"form"}])
          /\ UNCHANGED products
  /\ UNCHANGED <<orders, users, profiles, session, setDone>>

ProductUpdate(pk, name, price) ==
  /\ IF GetObject(products, pk) = {}
     THEN /\ response' = NotFound("product_update", NoClient, pk)
          /\ UNCHANGED products
     ELSE IF ProductFormValid(name, price)
     THEN /\ products' = {IF p.pk = pk THEN SaveProductFields(p, name, price) ELSE p :
                          p \in products}
          /\ response' = Redirect("product_update", NoClient, pk, Url("product_details", pk))
     ELSE /\ response' = Response("product_update", NoClient, pk, 200, NoLocation,
                                  [NoPayload EXCEPT !.keys = {"form"}, !.object = pk])
          /\ UNCHANGED products
  /\ UNCHANGED <<orders, users, profiles, session, setDone>>

ProductDelete(pk) ==
  /\ IF GetObject(products, pk) = {}
     THEN /\ response' = NotFound("product_delete", NoClient, pk)
          /\ UNCHANGED products
     ELSE /\ products' = {IF p.pk = pk THEN ArchiveProduct(p) ELSE p : p \in products}
          /\ response' = Redirect("product_delete", NoClient, pk, Url("products_list", 0))
  /\ UNCHANGED <<orders, users, profiles, session, setDone>>

(* ------------------------------ exports -------------------------------- *)

\* Mutant: the export reads the active products only.
ProductsExportData_ActiveOnly(rows) ==
  LET s == OrderByPk({p \in rows : ~p.archived})
  IN  [i \in 1..Len(s) |-> [pk |-> s[i].pk, name |-> s[i].name,
                            price |-> PyDecimal(s[i].price),
                            archived |-> s[i].archived]]

\* ProductsDataExportView.get: the list handed to JsonResponse.
ProductsExportData(rows) ==
  LET s == OrderByPk(rows)
  IN  [i \in 1..Len(s) |-> [pk |-> s[i].pk, name |-> s[i].name,
                            price |-> PyDecimal(s[i].price),
                            archived |-> s[i].archived]]

\* Mutant: every product counts as a product of the order.
OrderProducts_All(o, rows) == rows

\* order.products.all()
OrderProducts(o, rows) == {p \in rows : p.pk \in o.products}

\* Mutant: the nested price is appended without str().
OrderProductList_NoStr(o, rows) ==
  LET s == SelectSeq(OrderByPk(rows), LAMBDA p : p.pk \in o.products)
  IN  [i \in 1..Len(s) |-> [name |-> s[i].name, price |-> PyDecimal(s[i].price)]]

\* The inner loop of OrdersDataExportView.get: order_product_map[order.pk].
OrderProductList(o, rows) ==
  LET s == SelectSeq(OrderByPk(rows),
                     LAMBDA p : \E q \in OrderProducts(o, rows) : q.pk = p.pk)
  IN  [i \in 1..Len(s) |-> [name |-> s[i].name,
                            price |-> PyStr(StrDecimal(s[i].price))]]

\* OrdersDataExportView.get: the list handed to JsonResponse.
OrdersExportData(ords, rows) ==
  LET s == OrderByPk(ords)
  IN  [i \in 1..Len(s) |-> [pk |-> s[i].pk,
                            delivery_address |-> s[i].delivery_address,
                            user_id |-> s[i].user_id,
                            promocode |-> s[i].promocode,
                            products |-> OrderProductList(s[i], rows)]]

\* JsonResponse({'products': products_data})
JsonProducts(data) ==
  [i \in 1..Len(data) |-> [data[i] EXCEPT !.price = JsonEncode(@)]]

\* JsonResponse({'orders': order_data})
JsonOrders(data) ==
  [i \in 1..Len(data) |->
     [data[i] EXCEPT !.products =
        [j \in 1..Len(@) |-> [@[j] EXCEPT !.price = JsonEncode(@)]]]]

ProductsExport ==
  /\ response' = Response("products_export", NoClient, 0, 200, NoLocation,
        [NoPayload EXCEPT !.keys = {"products"},
                          !.products = JsonProducts(ProductsExportData(products))])
  /\ UNCHANGED <<products, orders, users, profiles, session, setDone>>

\* Mutant: superusers pass the test too.
OrdersExportTestFunc_Superuser(c) ==
  \E u \in RequestUser(c) : u.is_staff \/ u.is_superuser

\* OrdersDataExportView.test_func
OrdersExportTestFunc(c) == IsStaff(c)

OrdersExport(c) ==
  /\ response' = IF OrdersExportTestFunc(c)
                 THEN Response("orders_export", c, 0, 200, NoLocation,
                        [NoPayload EXCEPT !.keys = {"orders"},
                           !.orders = JsonOrders(OrdersExportData(orders, products))])
                 ELSE HandleNoPermission("orders_export", c, 0)
  /\ UNCHANGED <<products, orders, users, profiles, session, setDone>>

(* ----------------------------- order views ----------------------------- *)

\* ModelForm validation of a submitted order: the user and every chosen
\* product must exist.
OrderFormValid(user_id, chosen) ==
  /\ \E u \in users : u.pk = user_id
  /\ chosen \subseteq {p.pk : p \in products}

OrderCreate(user_id, chosen) ==
  /\ IF OrderFormValid(user_id, chosen)
     THEN /\ Cardinality(orders) < MaxOrders
          /\ orders' = orders \cup
               {[pk |-> NextPk(orders), user_id |-> user_id,
                 delivery_address |-> "addr", promocode |-> "SALE",
                 products |-> chosen]}
          /\ response' = Redirect("order_create", NoClient, 0, Url("orders_list", 0))
     ELSE /\ response' = Response("order_create", NoClient, 0, 200, NoLocation,
                                  [NoPayload EXCEPT !.keys = {"form"}])
          /\ UNCHANGED orders
  /\ UNCHANGED <<products, users, profiles, session, setDone>>

\* OrdersListView: LoginRequiredMixin sends an anonymous requester to login.
\* Mutant: the order list is served without the login mixin.
OrdersListTestLogin_Open(c) == TRUE

OrdersListTestLogin(c) == IsAuthenticated(c)

OrdersList(c) ==
  /\ response' = IF OrdersListTestLogin(c)
                 THEN Response("orders_list", c, 0, 200, NoLocation,
                        [NoPayload EXCEPT !.keys = {"object_list"},
                                          !.orders = OrderByPk(orders)])
                 ELSE HandleNoPermission("orders_list", c, 0)
  /\ UNCHANGED <<products, orders, users, profiles, session, setDone>>

\* Mutant: the order detail asks for a login only.
OrderDetailHasPermission_LoginOnly(c) == IsAuthenticated(c)

\* OrderDetailView: PermissionRequiredMixin with shopapp.view_order; the
\* permission is checked before the object is looked up.
OrderDetailHasPermission(c) == HasPerm(c, "shopapp.view_order")

OrderDetails(c, pk) ==
  /\ response' = IF ~OrderDetailHasPermission(c)
                 THEN HandleNoPermission("order_details", c, pk)
                 ELSE IF GetObject(orders, pk) = {}
                 THEN NotFound("order_details", c, pk)
                 ELSE Response("order_details", c, pk, 200, NoLocation,
                        [NoPayload EXCEPT !.keys = {"object"}, !.object = pk])
  /\ UNCHANGED <<products, orders, users, profiles, session, setDone>>

(* ------------------- registration, login and logout -------------------- *)

NoSessionData == {}

\* authenticate(request, username, password): the matching users, {} if none.
Authenticate(rows, username, password) ==
  {u \in rows : u.username = username /\ u.password = password}

\* login(request, user): the session is bound to the user; data left by
\* another user's login is flushed first.  Without a user nothing is bound.
DjangoLogin(sess, found) ==
  IF found = {} THEN sess
  ELSE LET u == CHOOSE x \in found : TRUE
       IN  [user |-> u.pk,
            data |-> IF sess.user \in {Anonymous, u.pk} THEN sess.data
                     ELSE NoSessionData]

\* UserCreationForm validation: a new, non-empty username and two equal
\* passwords.
UserCreationFormValid(username, password1, password2) ==
  /\ username # ""
  /\ \A u \in users : u.username # username
  /\ password1 = password2

\* form.save(): the new user row, without flags or permissions.
NewUser(rows, username, password) ==
  [pk |-> NextPk(rows), username |-> username, password |-> password,
   is_staff |-> FALSE, is_superuser |-> FALSE, perms |-> {}]

\* Mutant: the user is authenticated before it is saved.
RegisterFormValid_AuthFirst(sess, username, password) ==
  LET found    == Authenticate(users, username, password)
      created  == NewUser(users, username, password)
      profile  == [pk |-> NextPk(profiles), user_id |-> created.pk]
  IN  [users |-> users \cup {created}, profiles |-> profiles \cup {profile},
       session |-> DjangoLogin(sess, found)]

\* RegisterView.form_valid: the tables and the client's session after the
\* user is saved, its profile created, and the user authenticated and
\* logged in, each step working on the result of the one before.
RegisterFormValid(sess, username, password) ==
  LET created  == NewUser(users, username, password)
      users1   == users \cup {created}
      profile  == [pk |-> NextPk(profiles), user_id |-> created.pk]
      found    == Authenticate(users1, username, password)
  IN  [users |-> users1, profiles |-> profiles \cup {profile},
       session |-> DjangoLogin(sess, found)]

Register(c, username, password1, password2) ==
  /\ IF UserCreationFormValid(username, password1, password2)
     THEN /\ Cardinality(users) < MaxUsers
          /\ LET r == RegisterFormValid(session[c], username, password1)
             IN  /\ users' = r.users
                 /\ profiles' = r.profiles
                 /\ session' = [session EXCEPT ![c] = r.session]
          /\ response' = Redirect("register", c, 0, Url("about-me", 0))
     ELSE /\ response' = Response("register", c, 0, 200, NoLocation,
                                  [NoPayload EXCEPT !.keys = {"form"}])
          /\ UNCHANGED <<users, profiles, session>>
  /\ UNCHANGED <<products, orders, setDone>>

\* A client logs in with a user's credentials (the tests' force_login).
Login(c, username, password) ==
  /\ LET found == Authenticate(users, username, password)
     IN  IF found = {}
         THEN /\ response' = Response("login", c, 0, 200, NoLocation,
                                      [NoPayload EXCEPT !.keys = {"form"}])
              /\ UNCHANGED session
         ELSE /\ session' = [session EXCEPT ![c] = DjangoLogin(@, found)]
              /\ response' = Redirect("login", c, 0, Url("about-me", 0))
  /\ UNCHANGED <<products, orders, users, profiles, setDone>>

\* MyLogoutView: the session is flushed, then the client is sent to login.
Logout(c) ==
  /\ session' = [session EXCEPT ![c] = [user |-> Anonymous, data |-> NoSessionData]]
  /\ response' = Redirect("logout", c, 0, Url(LOGIN_URL, 0))
  /\ UNCHANGED <<products, orders, users, profiles, setDone>>

(* ---------------------------- session views ---------------------------- *)

\* The permission_required decorator of set_session_view.
SetSessionPermitted(c) == HasPerm(c, "myauth.view_profile")

\* Mutant: the value is stored under another key.
SetSessionData_WrongKey(data) == data \cup {<<"foo", "spameggs">>}

\* request.session["foobar"] = "spameggs"
SetSessionData(data) ==
  {kv \in data : kv[1] # "foobar"} \cup {<<"foobar", "spameggs">>}

\* request.session.get("foobar", "default")
GetSessionValue(data) ==
  IF \E kv \in data : kv[1] = "foobar"
  THEN (CHOOSE kv \in data : kv[1] = "foobar")[2]
  ELSE "default"

\* set_session_view; raise_exception=True denies every requester without
\* the permission, anonymous ones included.
SetSession(c) ==
  /\ IF SetSessionPermitted(c)
     THEN /\ session' = [session EXCEPT ![c].data = SetSessionData(@)]
          /\ setDone' = [setDone EXCEPT ![c] = TRUE]
          /\ response' = Response("session_set", c, 0, 200, NoLocation,
                                  [NoPayload EXCEPT !.value = "Session set!"])
     ELSE /\ response' = Forbidden("session_set", c, 0)
          /\ UNCHANGED <<session, setDone>>
  /\ UNCHANGED <<products, orders, users, profiles>>

\* get_session_view behind login_required.
GetSession(c) ==
  /\ response' = IF IsAuthenticated(c)
                 THEN Response("session_get", c, 0, 200, NoLocation,
                        [NoPayload EXCEPT !.value = GetSessionValue(session[c].data)])
                 ELSE RedirectToLogin("session_get", c, 0)
  /\ UNCHANGED <<products, orders, users, profiles, session, setDone>>

(* --------------------------- specifications ---------------------------- *)

NoResponse == Response("", NoClient, 0, 0, NoLocation, NoPayload)

AnonymousSession == [user |-> Anonymous, data |-> NoSessionData]

ProductPks == 1..(MaxProducts + 1)

OrderPks == 1..(MaxOrders + 1)

\* The product views on a store that starts empty.
InitShop ==
  /\ products = {}
  /\ orders = {}
  /\ users = FixtureUsers
  /\ profiles = FixtureProfiles
  /\ session = [c \in Clients |-> AnonymousSession]
  /\ response = NoResponse
  /\ setDone = [c \in Clients |-> FALSE]

NextShop ==
  \/ ProductsList
  \/ \E pk \in ProductPks : ProductDetails(pk)
  \/ \E name \in Names, price \in Prices : ProductCreate(name, price)
  \/ \E pk \in ProductPks, name \in Names, price \in Prices :
        ProductUpdate(pk, name, price)
  \/ \E pk \in ProductPks : ProductDelete(pk)
  \/ ProductsExport

SpecShop == InitShop /\ [][NextShop]_vars

\* The fixture products: 1 is active, 2 is archived.
FixtureProducts ==
  { [pk |-> 1, name |-> "Desk", price |-> 12345, archived |-> FALSE],
    [pk |-> 2, name |-> "Lamp", price |-> 5, archived |-> TRUE] }

\* The orders and the exports: the store starts with none, one or both of
\* the fixture products and no order; the staff user is logged in on c1 and
\* c2 is anonymous.  Products are updated and archived between exports.
InitOrders ==
  /\ products \in {{}, {p \in FixtureProducts : p.pk = 1}, FixtureProducts}
  /\ orders = {}
  /\ users = FixtureUsers
  /\ profiles = FixtureProfiles
  /\ session = [c \in Clients |->
                 IF c = "c1" THEN [user |-> 3, data |-> NoSessionData]
                 ELSE AnonymousSession]
  /\ response = NoResponse
  /\ setDone = [c \in Clients |-> FALSE]

NextOrders ==
  \/ \E user_id \in {1, 9}, chosen \in SUBSET ProductPks : OrderCreate(user_id, chosen)
  \/ \E c \in Clients : OrdersExport(c)
  \/ ProductsExport
  \/ \E pk \in ProductPks, name \in Names, price \in Prices :
        ProductUpdate(pk, name, price)
  \/ \E pk \in ProductPks : ProductDelete(pk)

SpecOrders == InitOrders /\ [][NextOrders]_vars

\* Stores the gated views are called on: the fixture products and no
\* order, one empty order, or two orders with products.
Order(pk, chosen) ==
  [pk |-> pk, user_id |-> 1, delivery_address |-> "addr", promocode |-> "SALE",
   products |-> chosen]

FixtureOrders ==
  { {}, {Order(1, {})}, {Order(1, {1}), Order(2, {1, 2})} }

\* Names a login form may submit: every account's and an unknown one.
LoginNames == {u.username : u \in FixtureUsers} \cup Usernames

InitAuth ==
  /\ products = FixtureProducts
  /\ orders \in FixtureOrders
  /\ users = FixtureUsers
  /\ profiles = FixtureProfiles
  /\ session = [c \in Clients |-> AnonymousSession]
  /\ response = NoResponse
  /\ setDone = [c \in Clients |-> FALSE]

NextAuth ==
  \/ \E c \in Clients, username \in Usernames, p1 \in Passwords, p2 \in Passwords :
        Register(c, username, p1, p2)
  \/ \E c \in Clients, username \in LoginNames, password \in Passwords :
        Login(c, username, password)
  \/ \E c \in Clients : Logout(c)
  \/ \E c \in Clients : OrdersList(c)
  \/ \E c \in Clients, pk \in OrderPks : OrderDetails(c, pk)
  \/ \E c \in Clients : OrdersExport(c)

SpecAuth == InitAuth /\ [][NextAuth]_vars

\* Session requests only: every client keeps the login it starts with.
InitSession ==
  /\ products = {}
  /\ orders = {}
  /\ users = FixtureUsers
  /\ profiles = FixtureProfiles
  /\ session \in [Clients -> {[user |-> u, data |-> NoSessionData] :
                               u \in {Anonymous} \cup {x.pk : x \in FixtureUsers}}]
  /\ response = NoResponse
  /\ setDone = [c \in Clients |-> FALSE]

NextSession ==
  \/ \E c \in Clients : SetSession(c)
  \/ \E c \in Clients : GetSession(c)

SpecSession == InitSession /\ [][NextSession]_vars

\* The whole site.
Init == InitShop

Next == NextShop \/ NextOrders \/ NextAuth \/ NextSession

Spec == Init /\ [][Next]_vars

(* ------------------------------- claims -------------------------------- *)

Range(s) == {s[i] : i \in 1..Len(s)}

Pks(rows) == {r.pk : r \in rows}

Ascending(s) == \A i, j \in 1..Len(s) : i < j => s[i].pk < s[j].pk

\* The user rows of the requester of the last response ({} if anonymous).
Requester == {u \in users : u.pk = response.user}

C1_DeleteStep ==
  (response'.op = "product_delete" /\ response'.status = 302) =>
     /\ response'.location = Url("products_list", 0)
     /\ \E p \in products :
          /\ p.pk = response'.arg
          /\ products' = (products \ {p}) \cup {[p EXCEPT !.archived = TRUE]}

C1_StaysArchived ==
  \A p \in products : p.archived => \E q \in products' : q.pk = p.pk /\ q.archived

C1_Views ==
  /\ (response.op = "product_details"
        /\ \E p \in products : p.pk = response.arg /\ p.archived)
     => (response.status = 200 /\ response.payload.object = response.arg)
  /\ response.op = "products_list"
     => \A p \in products :
          p.archived => \A e \in Range(response.payload.products) : e.pk # p.pk

\* C1: a successful product delete removes no row: it sets archived on that
\* product alone, leaves the primary keys and every other product as they
\* were and redirects to the product list; from then on, whatever is
\* created, updated or deleted, the product stays archived, the detail view
\* still resolves it and the product list does not show it.
C1_DeleteArchivesForGood ==
  [][C1_DeleteStep /\ C1_StaysArchived]_vars /\ []C1_Views

C1_Witness ==
  /\ response.op = "product_details" /\ response.status = 200
  /\ \E p \in products : p.pk = response.arg /\ p.archived /\ p.name = "Lamp"
  /\ Cardinality(products) = 2

C2_ListExact ==
  response.op = "products_list" =>
     /\ response.status = 200
     /\ response.payload.keys = {"products"}
     /\ Range(response.payload.products) = {p \in products : ~p.archived}
     /\ Len(response.payload.products) = Cardinality({p \in products : ~p.archived})

C2_CreateStep ==
  (response'.op = "product_create" /\ response'.status = 302) =>
     /\ response'.location = Url("products_list", 0)
     /\ \E p \in products' :
          /\ p.pk \notin Pks(products)
          /\ products' = products \cup {p}
          /\ p.archived = FALSE

\* C2: the products context of the product list is exactly the stored
\* products with archived = FALSE, after any creates, updates and deletes;
\* a successful create adds one product with archived = FALSE (so the next
\* listing shows it) and redirects to the product list.
C2_ListIsActiveProducts == [][C2_CreateStep]_vars /\ []C2_ListExact

C2_Witness ==
  /\ response.op = "products_list"
  /\ Len(response.payload.products) = 1
  /\ Cardinality(products) = 2

\* C3: the product export holds, under the key products, one entry for
\* every stored product, archived ones too, in strictly ascending pk order,
\* each with the pk, name, price and archived flag the store holds when the
\* request is made.
C3_ProductsExportExact ==
  response.op = "products_export" =>
     LET es == response.payload.products
     IN  /\ response.status = 200
         /\ response.payload.keys = {"products"}
         /\ Len(es) = Cardinality(products)
         /\ Ascending(es)
         /\ \A i \in 1..Len(es) :
              \E p \in products :
                 /\ p.pk = es[i].pk
                 /\ p.name = es[i].name
                 /\ p.archived = es[i].archived
                 /\ StrDecimal(p.price) = es[i].price.text

C3_Witness ==
  /\ response.op = "products_export"
  /\ Len(response.payload.products) = 2
  /\ \E p \in products : p.archived /\ p.name = "Lamp" /\ p.price = 5
  /\ \E p \in products : ~p.archived

\* C4: the orders export holds one entry per order in ascending order pk;
\* the nested products of an entry are the products associated with that
\* order and no others, one element each with the name and the price as a
\* string, in ascending product pk order, and none for an order without
\* products.
C4_OrdersExportExact ==
  (response.op = "orders_export" /\ response.status = 200) =>
     LET es == response.payload.orders
     IN  /\ Len(es) = Cardinality(orders)
         /\ Ascending(es)
         /\ \A i \in 1..Len(es) :
              \E o \in orders :
                 LET ps == OrderByPk({p \in products : p.pk \in o.products})
                     ns == es[i].products
                 IN  /\ o.pk = es[i].pk
                     /\ Len(ns) = Cardinality(o.products)
                     /\ \A j \in 1..Len(ns) :
                          /\ ns[j].name = ps[j].name
                          /\ ns[j].price = [json |-> "string",
                                            text |-> StrDecimal(ps[j].price)]

C4_Witness ==
  /\ response.op = "orders_export" /\ response.status = 200
  /\ Cardinality(products) = 2
  /\ \E o \in orders : o.products = {}
  /\ \E o \in orders : o.products = {2}

C8_PriceOnTheWire(json) ==
  response.op = "products_export" =>
     \A e \in Range(response.payload.products) : e.price.json = json

\* C8 as stated: the product export emits the price as a native number
\* (and the order export as a string).
C8_ProductPriceIsNumber == C8_PriceOnTheWire("number")

\* C8, amended: the two exports differ only in what they hand to
\* JsonResponse, a Decimal in the product export and a str in the order
\* export; in both responses the price of the same product is the same JSON
\* string.
C8_SamePriceString ==
  /\ C8_PriceOnTheWire("string")
  /\ \A p \in Range(ProductsExportData(products)) : p.price.type = "Decimal"
  /\ \A o \in orders :
       \A n \in Range(OrderProductList(o, products)) : n.price.type = "str"
  /\ (response.op = "orders_export" /\ response.status = 200) =>
        \A e \in Range(response.payload.orders) :
           \A o \in orders :
              o.pk = e.pk =>
                 LET ps == OrderByPk({p \in products : p.pk \in o.products})
                 IN  \A j \in 1..Len(e.products) :
                        \A x \in Range(JsonProducts(ProductsExportData(products))) :
                           x.pk = ps[j].pk => e.products[j].price = x.price

C8_Witness ==
  /\ response.op = "orders_export" /\ response.status = 200
  /\ \E e \in Range(response.payload.orders) :
        Len(e.products) = 2 /\ e.products[1].price # e.products[2].price

IsLoginRedirect(r) ==
  r.status = 302 /\ r.location.path = LOGIN_URL /\ r.payload = NoPayload

\* C5: an unauthenticated request for the order list is answered with a 302
\* whose target holds the login path, and with no order data, whatever the
\* store holds and also once a client that was logged in has logged out.
C5_AnonymousOrdersListRedirects ==
  (response.op = "orders_list" /\ response.user = Anonymous) =>
     IsLoginRedirect(response)

C5_Witness ==
  /\ response.op = "orders_list" /\ response.user = Anonymous
  /\ response.status = 302
  /\ Cardinality(orders) = 2
  /\ Cardinality(users) > Cardinality(FixtureUsers)
  /\ \A c \in Clients : session[c].user = Anonymous

LacksViewOrder ==
  \A u \in Requester : ~u.is_superuser /\ "shopapp.view_order" \notin u.perms

\* C6 as stated: every requester without shopapp.view_order gets an
\* explicit denial (403) from the order detail view.
C6_AlwaysForbidden ==
  (response.op = "order_details" /\ LacksViewOrder) => response.status = 403

\* C6, amended: an authenticated requester without shopapp.view_order gets
\* 403 from the order detail view and an anonymous one the redirect to
\* login, neither with the order; a requester holding the permission gets
\* the order of an existing pk.
C6_DeniedWithoutPermission ==
  response.op = "order_details" =>
     /\ (LacksViewOrder /\ response.user # Anonymous) =>
           (response.status = 403 /\ response.payload = NoPayload
              /\ response.location = NoLocation)
     /\ (LacksViewOrder /\ response.user = Anonymous) => IsLoginRedirect(response)
     /\ (~LacksViewOrder /\ response.arg \in Pks(orders)) =>
           (response.status = 200 /\ response.payload.object = response.arg)

C6_Witness ==
  /\ response.op = "order_details" /\ response.status = 403
  /\ response.user = 3
  /\ response.arg \in Pks(orders)

\* C7: the orders export answers with the orders payload only when the
\* requester has is_staff; an anonymous requester, an ordinary user and a
\* superuser without the staff flag get no order data, whole or partial.
C7_OrdersExportStaffOnly ==
  response.op = "orders_export" =>
     IF \E u \in Requester : u.is_staff
     THEN response.status = 200 /\ response.payload.keys = {"orders"}
     ELSE response.status \in {302, 403} /\ response.payload = NoPayload

C7_Witness ==
  /\ response.op = "orders_export" /\ response.status = 403
  /\ \E u \in Requester : u.is_superuser /\ ~u.is_staff
  /\ orders # {}

C9_ValidStep ==
  (response'.op = "register" /\ response'.status = 302) =>
     LET c == response'.client
     IN  /\ response'.location = Url("about-me", 0)
         /\ \E u \in users' :
              /\ u.pk \notin Pks(users)
              /\ users' = users \cup {u}
              /\ Cardinality({p \in profiles' : p.user_id = u.pk}) = 1
              /\ Cardinality(profiles') = Cardinality(profiles) + 1
              /\ profiles \subseteq profiles'
              /\ session'[c].user = u.pk
         /\ \A d \in Clients \ {c} : session'[d] = session[d]

C9_InvalidStep ==
  (response'.op = "register" /\ response'.status = 200) =>
     (users' = users /\ profiles' = profiles /\ session' = session)

\* C9: a registration with a valid form creates the user, then exactly one
\* profile of that user, then authenticates with the submitted name and
\* password and logs that user in on the requesting client, and redirects
\* to the about-me page; one with an invalid form creates no user and no
\* profile and logs nobody in.
C9_RegistrationLogsIn ==
  [][C9_ValidStep /\ C9_InvalidStep]_vars
     /\ [](\A u \in users : Cardinality({p \in profiles : p.user_id = u.pk}) = 1)

C9_Witness ==
  /\ response.op = "register" /\ response.status = 302
  /\ response.user = 1
  /\ \E u \in users : u.username = "newuser" /\ session[response.client].user = u.pk

\* C10: with session set and session get requests of several clients in
\* any order, session get sends an anonymous client to login and otherwise
\* returns the value written by session set exactly when that client has
\* completed a session set, which only a holder of myauth.view_profile can;
\* a rejected session set writes nothing, and no request changes another
\* client's session.
C10_Get ==
  /\ response.op = "session_get" =>
        IF response.user = Anonymous THEN IsLoginRedirect(response)
        ELSE /\ response.status = 200
             /\ response.payload.value =
                  IF setDone[response.client] THEN "spameggs" ELSE "default"
  /\ (response.op = "session_set" /\ response.status = 200) =>
        \E u \in Requester : u.is_superuser \/ "myauth.view_profile" \in u.perms

C10_Step ==
  /\ (response'.op = "session_set" /\ response'.status # 200) =>
        (response'.status = 403 /\ session' = session)
  /\ \A c \in Clients : c # response'.client => session'[c] = session[c]

C10_SessionPerClient == [][C10_Step]_vars /\ []C10_Get

C10_Witness ==
  /\ response.op = "session_get" /\ response.payload.value = "default"
  /\ response.user # Anonymous
  /\ \E c \in Clients : c # response.client /\ setDone[c]

====
